---- MODULE Spec2Model ----
(***************************************************************************)
(* Model of src/broker.cpp: the MQTT bridge that decodes CAN frames        *)
(* carried as JSON payloads (canToJson / canToJsonSim) and republishes     *)
(* them (BrokerLogicCallback::message_arrived).                            *)
(***************************************************************************)
EXTENDS Integers, Sequences, FiniteSets, TLC

VARIABLES
    simArbitrationMap_,  \* BrokerLogicCallback::simArbitrationMap_
    pc,                  \* where the delivery thread is: idle / callback / returned / terminated
    inflight,            \* the message handed to message_arrived
    last,                \* what the last run of message_arrived did
    published,           \* record of the client_.publish calls, oldest first
    delivered,           \* number of messages delivered so far
    errors,              \* the lines written to std::cerr, oldest first
    codecIn,             \* argument of a direct call of canToJson / canToJsonSim
    codecOut             \* what that call returned

vars == <<simArbitrationMap_, pc, inflight, last, published, delivered, errors, codecIn, codecOut>>

(***************************************************************************)
(* Bounds.                                                                 *)
(***************************************************************************)
MaxDeliveries == 2      \* deliveries in one behaviour
MaxLen == 4             \* longest data vector handed to the decoders directly

(***************************************************************************)
(* nlohmann::json values.  A value is a record tagged by its kind.         *)
(***************************************************************************)
JNull == [k |-> "null"]
JBool(b) == [k |-> "bool", v |-> b]
JInt(n) == [k |-> "int", v |-> n]
JFloat(n, d) == [k |-> "float", num |-> n, den |-> d]
JStr(s) == [k |-> "str", v |-> s]
JArr(s) == [k |-> "arr", v |-> s]
JObj(f) == [k |-> "obj", v |-> f]

\* A payload is a text.  A text that is a JSON document is represented by
\* the document it denotes, any other text by its characters.
JsonText(d) == [k |-> "json", doc |-> d]
RawText(s) == [k |-> "raw", s |-> s]

\* Outcome of an expression that may throw.
Ok(x) == [ok |-> TRUE, val |-> x]
Throw(e) == [ok |-> FALSE, ex |-> e]

\* An int is a 32-bit two's complement number; every value below stays
\* inside that range.

\* a | b on int, bit by bit from the lowest (-1 is all ones).
RECURSIVE BitOr(_, _)
BitOr(a, b) ==
    IF a = 0 THEN b
    ELSE IF b = 0 THEN a
    ELSE IF a = -1 \/ b = -1 THEN -1
    ELSE (IF a % 2 = 1 \/ b % 2 = 1 THEN 1 ELSE 0) + 2 * BitOr(a \div 2, b \div 2)

\* a << 8 on int
Shl8(a) == a * 256

\* json::parse(payload)
json_parse(payload) ==
    IF payload.k = "json" THEN Ok(payload.doc) ELSE Throw("parse_error")

\* json::dump()
dump(j) == JsonText(j)

\* json::contains(key)
contains(j, key) == j.k = "obj" /\ key \in DOMAIN j.v

\* json::get<int>()
get_int(j) ==
    IF j.k = "int" THEN Ok(j.v)
    ELSE IF j.k = "bool" THEN Ok(IF j.v THEN 1 ELSE 0)
    ELSE Throw("type_error")

\* json::get<std::string>()
get_string(j) ==
    IF j.k = "str" THEN Ok(j.v) ELSE Throw("type_error")

\* json::value(key, "")
value_string(j, key, default) ==
    IF j.k # "obj" THEN Throw("type_error")
    ELSE IF key \in DOMAIN j.v THEN get_string(j.v[key])
    ELSE Ok(default)

\* json::value(key, 0)
value_int(j, key, default) ==
    IF j.k # "obj" THEN Throw("type_error")
    ELSE IF key \in DOMAIN j.v THEN get_int(j.v[key])
    ELSE Ok(default)

\* data[i] of a std::vector<int>, i counted from 0.  An index at or beyond
\* size() is outside the vector; the decoders guard every access.
At(data, i) == IF i < Len(data) THEN data[i + 1] ELSE -858993460

(***************************************************************************)
(* canToJson (production decoder), src/broker.cpp lines 75-115.            *)
(* msg is a CanMessage: [AlgorithmID, CAN_Message: [ArbitrationId, Data]]. *)
(***************************************************************************)
BlindSpotDetection == "BlindSpotDetection"

\* Variant: an empty algorithm id is passed on as it is.
canToJsonAlgorithmIdAsGiven(msg) == msg.AlgorithmID

canToJsonAlgorithmId(msg) ==
    IF msg.AlgorithmID = "" THEN "Unknown" ELSE msg.AlgorithmID

\* Variant: the first element is read without looking at the size.
canToJsonHasStatusUnguarded(data) == TRUE

canToJsonHasStatus(data) == Len(data) > 0

canToJsonStatus(data) == canToJsonHasStatus(data) /\ At(data, 0) = 1

canToJsonHasDistance(data) == Len(data) > 2

\* Variant: the two distance bytes are composed the other way around.
canToJsonDistanceSwapped(data) ==
    IF canToJsonHasDistance(data)
    THEN BitOr(Shl8(At(data, 1)), At(data, 2))
    ELSE 0

canToJsonDistance(data) ==
    IF canToJsonHasDistance(data)
    THEN BitOr(Shl8(At(data, 2)), At(data, 1))
    ELSE 0

canToJsonHasSide(algorithmId, data) ==
    algorithmId = BlindSpotDetection /\ Len(data) > 3

canToJsonSide(algorithmId, data) ==
    IF canToJsonHasSide(algorithmId, data) /\ At(data, 3) = 1
    THEN "Direita"
    ELSE "Esquerda"

canToJsonTimestamp == "2025-01-31T12:00:00Z"

\* Variant: Side is written for every algorithm.
canToJsonDataWithSide(algorithmId, side, distance) ==
    JObj([Side |-> JStr(side), DistanceToVehicle |-> JFloat(distance, 100)])

canToJsonData(algorithmId, side, distance) ==
    IF algorithmId = BlindSpotDetection
    THEN JObj([Side |-> JStr(side), DistanceToVehicle |-> JFloat(distance, 100)])
    ELSE JObj([DistanceToVehicle |-> JFloat(distance, 100)])

\* Variant: the arbitration id read at line 77 is written into Data.
canToJsonWithArbitrationId(msg) ==
    LET data == msg.CAN_Message.Data
        arbitrationId == msg.CAN_Message.ArbitrationId
        algorithmId == canToJsonAlgorithmId(msg)
        status == canToJsonStatus(data)
        distance == canToJsonDistance(data)
    IN  [AlgorithmID |-> algorithmId,
         Timestamp   |-> canToJsonTimestamp,
         Status      |-> status,
         Data        |-> JObj([ArbitrationId |-> JInt(arbitrationId),
                               DistanceToVehicle |-> JFloat(distance, 100)])]

canToJson(msg) ==
    LET data == msg.CAN_Message.Data
        algorithmId == canToJsonAlgorithmId(msg)
        status == canToJsonStatus(data)
        distance == canToJsonDistance(data)
        side == canToJsonSide(algorithmId, data)
    IN  [AlgorithmID |-> algorithmId,
         Timestamp   |-> canToJsonTimestamp,
         Status      |-> status,
         Data        |-> canToJsonData(algorithmId, side, distance)]

\* The indices of data that canToJson reads.
canToJsonReads(msg) ==
    LET data == msg.CAN_Message.Data
        algorithmId == canToJsonAlgorithmId(msg)
    IN  (IF canToJsonHasStatus(data) THEN {0} ELSE {})
        \cup (IF canToJsonHasDistance(data) THEN {2, 1} ELSE {})
        \cup (IF canToJsonHasSide(algorithmId, data) THEN {3} ELSE {})

(***************************************************************************)
(* canToJsonSim (simulation decoder), src/broker.cpp lines 117-154.        *)
(***************************************************************************)
canToJsonSimAlgorithmId(simMsg) ==
    IF simMsg.AlgorithmID = "" THEN "Unknown" ELSE simMsg.AlgorithmID

canToJsonSimHasStatus(data) == Len(data) > 0

canToJsonSimStatus(data) == canToJsonSimHasStatus(data) /\ At(data, 0) = 1

canToJsonSimHasDistance(data) == Len(data) > 2

\* Variant: the two distance bytes are added, not or-ed.
canToJsonSimDistanceSum(data) ==
    IF canToJsonSimHasDistance(data)
    THEN Shl8(At(data, 2)) + At(data, 1)
    ELSE 0

canToJsonSimDistance(data) ==
    IF canToJsonSimHasDistance(data)
    THEN BitOr(Shl8(At(data, 2)), At(data, 1))
    ELSE 0

canToJsonSimHasSide(algorithmId, data) ==
    algorithmId = BlindSpotDetection /\ Len(data) > 3

canToJsonSimSide(algorithmId, data) ==
    IF canToJsonSimHasSide(algorithmId, data) /\ At(data, 3) = 1
    THEN "Direita"
    ELSE "Esquerda"

canToJsonSimTimestamp == "2025-01-31T12:00:00Z"

canToJsonSimData(algorithmId, side, distance) ==
    IF algorithmId = BlindSpotDetection
    THEN JObj([Side |-> JStr(side), DistanceToVehicle |-> JFloat(distance, 100)])
    ELSE JObj([DistanceToVehicle |-> JFloat(distance, 100)])

canToJsonSim(simMsg) ==
    LET data == simMsg.CAN_Message.Data
        algorithmId == canToJsonSimAlgorithmId(simMsg)
        status == canToJsonSimStatus(data)
        distance == canToJsonSimDistance(data)
        side == canToJsonSimSide(algorithmId, data)
    IN  [AlgorithmID |-> algorithmId,
         Timestamp   |-> canToJsonSimTimestamp,
         Status      |-> status,
         Data        |-> canToJsonSimData(algorithmId, side, distance)]

\* The indices of data that canToJsonSim reads.
canToJsonSimReads(simMsg) ==
    LET data == simMsg.CAN_Message.Data
        algorithmId == canToJsonSimAlgorithmId(simMsg)
    IN  (IF canToJsonSimHasStatus(data) THEN {0} ELSE {})
        \cup (IF canToJsonSimHasDistance(data) THEN {2, 1} ELSE {})
        \cup (IF canToJsonSimHasSide(algorithmId, data) THEN {3} ELSE {})

(***************************************************************************)
(* BrokerLogicCallback, src/broker.cpp lines 159-298.                      *)
(***************************************************************************)
\* The constructor's table, lines 167-172.
InitialArbitrationMap ==
    [id \in {256, 257, 258, 259} |->
        CASE id = 256 -> "simsensor/blindspot"
          [] id = 257 -> "simsensor/pedestrian"
          [] id = 258 -> "simsensor/frontalcollision"
          [] id = 259 -> "simsensor/rearcollision"]

\* Variant: the table is subscripted without looking the key up first.
foundUnchecked(map, key) == TRUE

\* std::unordered_map::find(key) != end()
found(map, key) == key \in DOMAIN map

\* std::unordered_map::operator[]: a key that is not there is inserted
\* with an empty string.
subscript(map, key) ==
    IF key \in DOMAIN map
    THEN [map |-> map, value |-> map[key]]
    ELSE [map |-> [x \in DOMAIN map \cup {key} |-> IF x = key THEN "" ELSE map[x]],
          value |-> ""]

\* Variant: the last character of the prefix is not compared.
rfind0Short(topic, prefix) ==
    Len(topic) >= Len(prefix) - 1
    /\ SubSeq(topic, 1, Len(prefix) - 1) = SubSeq(prefix, 1, Len(prefix) - 1)

\* topic.rfind(prefix, 0) == 0
rfind0(topic, prefix) ==
    Len(topic) >= Len(prefix) /\ SubSeq(topic, 1, Len(prefix)) = prefix

\* Variant: the cut is one character early.
substrOneEarly(topic, pos) == SubSeq(topic, pos, Len(topic))

\* topic.substr(pos)
substr(topic, pos) == SubSeq(topic, pos + 1, Len(topic))

\* The loop over a data array, lines 197-199 and 249-251: it throws at the
\* first element that is not a number.
readData(arr) ==
    IF \A i \in 1..Len(arr) : get_int(arr[i]).ok
    THEN Ok([i \in 1..Len(arr) |-> get_int(arr[i]).val])
    ELSE Throw("type_error")

\* Variant: is_array() is not asked; the loop over a value that is not an
\* array visits the value itself, and get<int>() throws on it.
dataOfAnyValue(cm, key) ==
    IF contains(cm, key)
    THEN IF cm.v[key].k = "arr" THEN readData(cm.v[key].v) ELSE readData(<<cm.v[key]>>)
    ELSE Ok(<<>>)

\* Lines 196-200 and 248-252: the data vector read from the nested object.
dataOf(cm, key) ==
    IF contains(cm, key) /\ cm.v[key].k = "arr"
    THEN readData(cm.v[key].v)
    ELSE Ok(<<>>)

\* Lines 189-201.  uninit is the value the int member ArbitrationId of the
\* default-initialised simMsg holds before anything is assigned to it.
parseCanMessageSimulator(payload, uninit) ==
    LET j == json_parse(payload)
    IN  IF ~j.ok THEN j
        ELSE LET AlgorithmID == value_string(j.val, "algorithm_id", "")
             IN  IF ~AlgorithmID.ok THEN AlgorithmID
                 ELSE IF ~contains(j.val, "can_message")
                 THEN Ok([AlgorithmID |-> AlgorithmID.val,
                          CAN_Message |-> [ArbitrationId |-> uninit, Data |-> <<>>]])
                 ELSE LET cm == j.val.v["can_message"]
                          ArbitrationId == value_int(cm, "arbitration_id", 0)
                      IN  IF ~ArbitrationId.ok THEN ArbitrationId
                          ELSE LET Data == dataOf(cm, "data")
                               IN  IF ~Data.ok THEN Data
                                   ELSE Ok([AlgorithmID |-> AlgorithmID.val,
                                            CAN_Message |-> [ArbitrationId |-> ArbitrationId.val,
                                                             Data |-> Data.val]])

\* Lines 242-253.
parseCanMessage(payload, uninit) ==
    LET j == json_parse(payload)
    IN  IF ~j.ok THEN j
        ELSE LET AlgorithmID == value_string(j.val, "AlgorithmID", "")
             IN  IF ~AlgorithmID.ok THEN AlgorithmID
                 ELSE IF ~contains(j.val, "CAN_Message")
                 THEN Ok([AlgorithmID |-> AlgorithmID.val,
                          CAN_Message |-> [ArbitrationId |-> uninit, Data |-> <<>>]])
                 ELSE LET cm == j.val.v["CAN_Message"]
                          ArbitrationId == value_int(cm, "ArbitrationId", 0)
                      IN  IF ~ArbitrationId.ok THEN ArbitrationId
                          ELSE LET Data == dataOf(cm, "Data")
                               IN  IF ~Data.ok THEN Data
                                   ELSE Ok([AlgorithmID |-> AlgorithmID.val,
                                            CAN_Message |-> [ArbitrationId |-> ArbitrationId.val,
                                                             Data |-> Data.val]])

\* The document built at lines 212-217 and 264-269.
outPayload(jsonMsg) ==
    JObj([AlgorithmID |-> JStr(jsonMsg.AlgorithmID),
          Timestamp   |-> JStr(jsonMsg.Timestamp),
          Status      |-> JBool(jsonMsg.Status),
          Data        |-> jsonMsg.Data])

\* Variant: the retained flag is left at its default.
publishMessageNotRetained(topic, payload) ==
    [topic |-> topic, payload |-> payload, qos |-> 1, retained |-> FALSE]

\* publishMessage, lines 292-297: the message handed to client_.publish.
publishMessage(topic, payload) ==
    [topic |-> topic, payload |-> payload, qos |-> 1, retained |-> TRUE]

NoFrame == "none"

\* What the try block did: the branch taken, the exception thrown out of it
\* ("none" when it completed), the frame parsed, the publishes made and the
\* route table afterwards.
Ran(branch, ex, frame, pubs, map) ==
    [branch |-> branch, ex |-> ex, frame |-> frame, pubs |-> pubs, map |-> map]

\* The Timestamp member of a published payload, "" when it has none.
TimestampOf(payload) ==
    IF payload.k = "json" /\ payload.doc.k = "obj" /\ "Timestamp" \in DOMAIN payload.doc.v
    THEN payload.doc.v["Timestamp"].v
    ELSE ""

\* Variant: after its own publish the branch goes on into the redirect.
simCanMessagesBranchThenRedirect(payload, map, uninit) ==
    LET parsed == parseCanMessageSimulator(payload, uninit)
        redirect == publishMessage("moto/canmessages", payload)
    IN  IF ~parsed.ok
        THEN Ran("sim/canmessages", parsed.ex, NoFrame, <<>>, map)
        ELSE LET simMsg == parsed.val
                 jsonMsg == canToJsonSim(simMsg)
                 arb == simMsg.CAN_Message.ArbitrationId
             IN  IF found(map, arb)
                 THEN Ran("sim/canmessages", "none", simMsg,
                          <<publishMessage(map[arb], dump(outPayload(jsonMsg))), redirect>>,
                          map)
                 ELSE Ran("sim/canmessages", "none", simMsg, <<redirect>>, map)

\* Lines 187-230.
simCanMessagesBranch(payload, map, uninit) ==
    LET parsed == parseCanMessageSimulator(payload, uninit)
    IN  IF ~parsed.ok
        THEN Ran("sim/canmessages", parsed.ex, NoFrame, <<>>, map)
        ELSE LET simMsg == parsed.val
                 jsonMsg == canToJsonSim(simMsg)
                 arb == simMsg.CAN_Message.ArbitrationId
             IN  IF found(map, arb)
                 THEN LET targetTopic == subscript(map, arb)
                      IN  Ran("sim/canmessages", "none", simMsg,
                              <<publishMessage(targetTopic.value, dump(outPayload(jsonMsg)))>>,
                              targetTopic.map)
                 ELSE Ran("sim/canmessages", "none", simMsg, <<>>, map)

\* Variant: the redirected topic keeps the "sim/" namespace.
redirectBranchSameNamespace(topic, payload, map) ==
    LET newTopic == "sim/" \o substr(topic, 4)
    IN  Ran("redirect", "none", NoFrame, <<publishMessage(newTopic, payload)>>, map)

\* Lines 231-238.
redirectBranch(topic, payload, map) ==
    LET newTopic == "moto/" \o substr(topic, 4)
    IN  Ran("redirect", "none", NoFrame, <<publishMessage(newTopic, payload)>>, map)

\* Variant: the production branch looks its topic up in the route table, as
\* the simulation branch does.
canMessagesBranchViaTable(payload, map, uninit) ==
    LET parsed == parseCanMessage(payload, uninit)
    IN  IF ~parsed.ok
        THEN Ran("can/messages", parsed.ex, NoFrame, <<>>, map)
        ELSE LET canMsg == parsed.val
                 jsonMsg == canToJson(canMsg)
                 arb == canMsg.CAN_Message.ArbitrationId
             IN  IF found(map, arb)
                 THEN Ran("can/messages", "none", canMsg,
                          <<publishMessage(map[arb], dump(outPayload(jsonMsg)))>>, map)
                 ELSE Ran("can/messages", "none", canMsg, <<>>, map)

\* Lines 241-274.
canMessagesBranch(payload, map, uninit) ==
    LET parsed == parseCanMessage(payload, uninit)
    IN  IF ~parsed.ok
        THEN Ran("can/messages", parsed.ex, NoFrame, <<>>, map)
        ELSE LET canMsg == parsed.val
                 jsonMsg == canToJson(canMsg)
                 targetTopic == "sensor/sensordetector"
             IN  Ran("can/messages", "none", canMsg,
                     <<publishMessage(targetTopic, dump(outPayload(jsonMsg)))>>, map)

\* Variant: the prefix rule is tried before the exact topic.
tryBlockPrefixFirst(topic, payload, map, uninit) ==
    IF rfind0(topic, "sim/")
    THEN redirectBranch(topic, payload, map)
    ELSE IF topic = "sim/canmessages"
    THEN simCanMessagesBranch(payload, map, uninit)
    ELSE IF topic = "can/messages"
    THEN canMessagesBranch(payload, map, uninit)
    ELSE Ran("unrecognized", "none", NoFrame, <<>>, map)

\* The try block, lines 183-279.
tryBlock(topic, payload, map, uninit) ==
    IF rfind0(topic, "sim/")
    THEN IF topic = "sim/canmessages"
         THEN simCanMessagesBranch(payload, map, uninit)
         ELSE redirectBranch(topic, payload, map)
    ELSE IF topic = "can/messages"
    THEN canMessagesBranch(payload, map, uninit)
    ELSE Ran("unrecognized", "none", NoFrame, <<>>, map)

\* Variant: a handler for type errors only.
catchesTypeErrorOnly(ex) == ex = "type_error"

\* catch (std::exception &ex), line 280: the exceptions of nlohmann::json
\* all derive from std::exception.
catches(ex) == ex \in {"parse_error", "type_error"}

\* main, lines 327-328: the topic filters subscribed to.
subscriptions == {"sim/#", "can/messages"}

\* Whether the broker delivers a topic to a subscription with this filter:
\* a filter ending in "/#" takes its parent topic and everything below it,
\* any other filter used here takes the topic equal to it.
topicMatches(filter, topic) ==
    IF Len(filter) >= 2 /\ SubSeq(filter, Len(filter) - 1, Len(filter)) = "/#"
    THEN LET parent == SubSeq(filter, 1, Len(filter) - 2)
         IN  topic = parent \/ rfind0(topic, parent \o "/")
    ELSE topic = filter

(***************************************************************************)
(* The messages the client library delivers.                               *)
(***************************************************************************)
Absent == [k |-> "absent"]

\* The JSON object holding the pairs <<key, value>> whose value is there.
MkObj(pairs) ==
    LET there == {p \in pairs : p[2].k # "absent"}
    IN  JObj([key \in {p[1] : p \in there} |-> (CHOOSE p \in there : p[1] = key)[2]])

AlgorithmValues ==
    {Absent, JStr(""), JStr("BlindSpotDetection"), JStr("Pedestrian"), JInt(5)}

ArbitrationValues ==
    {Absent, JInt(256), JInt(257), JInt(258), JInt(259), JInt(2457),
     JInt(0), JStr("257")}

DataArrays ==
    {<<>>,
     <<JInt(1)>>,
     <<JBool(TRUE)>>,
     <<JInt(0), JInt(10), JInt(0)>>,
     <<JInt(1), JInt(50), JInt(2)>>,
     <<JInt(1), JInt(50), JInt(2), JInt(1)>>,
     <<JInt(1), JInt(50), JInt(2), JInt(0)>>,
     <<JInt(0), JInt(300), JInt(300)>>,
     <<JInt(1), JStr("x")>>}

DataValues == {Absent, JStr("1,50,2")} \cup {JArr(a) : a \in DataArrays}

NestedValues(arbKey, dataKey) ==
    {Absent, JInt(7)}
    \cup {MkObj({<<arbKey, a>>, <<dataKey, d>>}) :
            a \in ArbitrationValues, d \in DataValues}

Documents(algKey, msgKey, arbKey, dataKey) ==
    {JInt(42), JArr(<<>>)}
    \cup {MkObj({<<algKey, g>>, <<msgKey, n>>}) :
            g \in AlgorithmValues, n \in NestedValues(arbKey, dataKey)}

ProductionDocuments == Documents("AlgorithmID", "CAN_Message", "ArbitrationId", "Data")

SimulationDocuments == Documents("algorithm_id", "can_message", "arbitration_id", "data")

MalformedPayloads == {RawText("not json"), RawText("{\"AlgorithmID\":")}

Payloads ==
    MalformedPayloads
    \cup {JsonText(d) : d \in ProductionDocuments \cup SimulationDocuments}

\* Payloads delivered on the topics whose payload is never parsed.
PassThroughPayloads ==
    {RawText("not json"), RawText("42.5"),
     JsonText(MkObj({<<"algorithm_id", JStr("Pedestrian")>>}))}

ParsedTopics == {"can/messages", "sim/canmessages"}

Topics ==
    ParsedTopics
    \cup {"sim/foo/bar", "sim/", "sim/canmessages/x", "sim", "simsensor/x",
          "other/topic", "can/messages/x", "moto/foo/bar"}

Messages ==
    {[topic |-> t, payload |-> p] : t \in ParsedTopics, p \in Payloads}
    \cup {[topic |-> t, payload |-> p] : t \in Topics \ ParsedTopics, p \in PassThroughPayloads}

\* Values an int that was never assigned can be found to hold.
IndeterminateInts == {0, 256, 2457, -858993460}

(***************************************************************************)
(* State machine of the delivery thread.                                   *)
(***************************************************************************)
NoMsg == [topic |-> "", payload |-> RawText("")]

NoRun ==
    [topic |-> "", payload |-> RawText(""), branch |-> "none", ex |-> "none",
     frame |-> NoFrame, pubs |-> <<>>]

NotCalled == [called |-> FALSE]

NoCodecIn == [AlgorithmID |-> "", CAN_Message |-> [ArbitrationId |-> 0, Data |-> <<>>]]

NoCodecOut == [canToJson |-> NotCalled, canToJsonSim |-> NotCalled]

Init ==
    /\ simArbitrationMap_ = InitialArbitrationMap
    /\ pc = "idle"
    /\ inflight = NoMsg
    /\ last = NoRun
    /\ published = <<>>
    /\ delivered = 0
    /\ errors = <<>>
    /\ codecIn = NoCodecIn
    /\ codecOut = NoCodecOut

\* The client library takes the next inbound message and calls the callback.
Deliver ==
    /\ pc = "idle"
    /\ delivered < MaxDeliveries
    /\ \E m \in Messages : inflight' = m
    /\ delivered' = delivered + 1
    /\ pc' = "callback"
    /\ UNCHANGED <<simArbitrationMap_, last, published, errors, codecIn, codecOut>>

\* message_arrived, lines 176-283.
message_arrived ==
    /\ pc = "callback"
    /\ \E uninit \in IndeterminateInts :
         LET r == tryBlock(inflight.topic, inflight.payload, simArbitrationMap_, uninit)
         IN  /\ simArbitrationMap_' = r.map
             /\ last' = [topic |-> inflight.topic, payload |-> inflight.payload,
                         branch |-> r.branch, ex |-> r.ex, frame |-> r.frame,
                         pubs |-> r.pubs]
             /\ published' = published \o
                    [i \in 1..Len(r.pubs) |->
                        [cause |-> delivered, topic |-> r.pubs[i].topic,
                         qos |-> r.pubs[i].qos, retained |-> r.pubs[i].retained,
                         timestamp |-> TimestampOf(r.pubs[i].payload)]]
             /\ errors' = IF r.ex # "none" /\ catches(r.ex)
                           THEN Append(errors, [cause |-> delivered, ex |-> r.ex])
                           ELSE errors
             /\ pc' = IF r.ex = "none" \/ catches(r.ex) THEN "returned" ELSE "terminated"
    /\ UNCHANGED <<inflight, delivered, codecIn, codecOut>>

\* The callback has returned; the library goes back to waiting.
Return ==
    /\ pc = "returned"
    /\ pc' = "idle"
    /\ inflight' = NoMsg
    /\ last' = NoRun
    /\ UNCHANGED <<simArbitrationMap_, published, delivered, errors, codecIn, codecOut>>

Next == Deliver \/ message_arrived \/ Return

Spec == Init /\ [][Next]_vars

(***************************************************************************)
(* The decoders called directly on every frame within the bounds.          *)
(***************************************************************************)
CodecElems == {0, 1, 2, 50, 255, 300, -1}

CodecAlgorithmIds == {"", "BlindSpotDetection", "Pedestrian", "Unknown"}

CodecData == UNION {[1..n -> CodecElems] : n \in 0..MaxLen}

CodecInputs ==
    [AlgorithmID : CodecAlgorithmIds,
     CAN_Message : [ArbitrationId : {256}, Data : CodecData]]

InitCodec ==
    /\ simArbitrationMap_ = InitialArbitrationMap
    /\ pc = "idle"
    /\ inflight = NoMsg
    /\ last = NoRun
    /\ published = <<>>
    /\ delivered = 0
    /\ errors = <<>>
    /\ codecIn \in CodecInputs
    /\ codecOut = NoCodecOut

CallCanToJson ==
    /\ ~codecOut.canToJson.called
    /\ codecOut' = [codecOut EXCEPT !.canToJson =
                        [called |-> TRUE, result |-> canToJson(codecIn),
                         reads |-> canToJsonReads(codecIn)]]
    /\ UNCHANGED <<simArbitrationMap_, pc, inflight, last, published, delivered, errors, codecIn>>

CallCanToJsonSim ==
    /\ ~codecOut.canToJsonSim.called
    /\ codecOut' = [codecOut EXCEPT !.canToJsonSim =
                        [called |-> TRUE, result |-> canToJsonSim(codecIn),
                         reads |-> canToJsonSimReads(codecIn)]]
    /\ UNCHANGED <<simArbitrationMap_, pc, inflight, last, published, delivered, errors, codecIn>>

NextCodec == CallCanToJson \/ CallCanToJsonSim

SpecCodec == InitCodec /\ [][NextCodec]_vars

TypeOK ==
    /\ pc \in {"idle", "callback", "returned", "terminated"}
    /\ delivered \in 0..MaxDeliveries
    /\ Len(published) <= delivered

(***************************************************************************)
(* Properties.                                                             *)
(***************************************************************************)
\* message_arrived has run on a payload that the parser turned into a frame.
Parsed ==
    /\ pc = "returned"
    /\ last.branch \in {"can/messages", "sim/canmessages"}
    /\ last.ex = "none"

IsNumber(j) == j.k \in {"int", "bool"}

\* A JSON object whose members under the given keys, where present, have
\* the types the parser converts: a string, and an object holding a number
\* and, where it is an array, an array of numbers.
WellTyped(doc, algKey, msgKey, arbKey, dataKey) ==
    /\ doc.k = "obj"
    /\ algKey \in DOMAIN doc.v => doc.v[algKey].k = "str"
    /\ msgKey \in DOMAIN doc.v =>
         LET cm == doc.v[msgKey]
         IN  /\ cm.k = "obj"
             /\ arbKey \in DOMAIN cm.v => IsNumber(cm.v[arbKey])
             /\ (dataKey \in DOMAIN cm.v /\ cm.v[dataKey].k = "arr") =>
                  \A i \in 1..Len(cm.v[dataKey].v) : IsNumber(cm.v[dataKey].v[i])

HasSimPrefix(topic) == Len(topic) >= 4 /\ SubSeq(topic, 1, 4) = "sim/"

\* C1 as stated: every delivery on "can/messages" whose payload is valid
\* JSON makes exactly one publish, to "sensor/sensordetector".
C1_AnyJsonForwarded ==
    (pc = "returned" /\ last.topic = "can/messages" /\ last.payload.k = "json")
    => /\ Len(last.pubs) = 1
       /\ last.pubs[1].topic = "sensor/sensordetector"

\* C1 amended: every delivery on "can/messages" whose payload is a JSON
\* object with members of the expected types (AlgorithmID a string,
\* CAN_Message an object, ArbitrationId a number, the elements of an array
\* Data numbers; any of them may be absent, and the arbitration id may be
\* any number) makes exactly one publish, to "sensor/sensordetector", and
\* leaves the route table as it was.
C1_WellTypedJsonForwarded ==
    (/\ pc = "returned"
     /\ last.topic = "can/messages"
     /\ last.payload.k = "json"
     /\ WellTyped(last.payload.doc, "AlgorithmID", "CAN_Message", "ArbitrationId", "Data"))
    => /\ last.ex = "none"
       /\ Len(last.pubs) = 1
       /\ last.pubs[1].topic = "sensor/sensordetector"
       /\ Len(published) >= 1
       /\ published[Len(published)].cause = delivered
       /\ \A i \in 1..(Len(published) - 1) : published[i].cause < delivered
       /\ simArbitrationMap_ = InitialArbitrationMap

\* A frame whose arbitration id is in the route table went to
\* "sensor/sensordetector" all the same.
C1_Witness ==
    /\ Parsed
    /\ last.topic = "can/messages"
    /\ last.frame.CAN_Message.ArbitrationId = 257
    /\ Len(last.pubs) = 1
    /\ last.pubs[1].topic = "sensor/sensordetector"

C2_TableTopic(arb) ==
    CASE arb = 256 -> "simsensor/blindspot"
      [] arb = 257 -> "simsensor/pedestrian"
      [] arb = 258 -> "simsensor/frontalcollision"
      [] arb = 259 -> "simsensor/rearcollision"

\* C2: a delivery on "sim/canmessages" that parses into a frame makes
\* exactly one publish, to the table's topic with the encoded result, when
\* the frame's arbitrationId is 0x100..0x103, and none otherwise; no
\* delivery on "sim/canmessages" is published to "moto/canmessages".
C2_SimFrameRoutedByTable ==
    (pc = "returned" /\ last.topic = "sim/canmessages")
    => /\ \A i \in 1..Len(last.pubs) : last.pubs[i].topic # "moto/canmessages"
       /\ last.ex = "none" =>
            LET arb == last.frame.CAN_Message.ArbitrationId
                data == last.frame.CAN_Message.Data
            IN  IF arb \in {256, 257, 258, 259}
                THEN /\ Len(last.pubs) = 1
                     /\ last.pubs[1].topic = C2_TableTopic(arb)
                     /\ last.pubs[1].payload = dump(outPayload(canToJsonSim(last.frame)))
                     /\ last.pubs[1].payload.k = "json"
                     /\ DOMAIN last.pubs[1].payload.doc.v
                          = {"AlgorithmID", "Timestamp", "Status", "Data"}
                     /\ last.pubs[1].payload.doc.v.Status
                          = JBool(Len(data) > 0 /\ data[1] = 1)
                ELSE last.pubs = <<>>

C2_Witness ==
    /\ Parsed
    /\ last.topic = "sim/canmessages"
    /\ last.frame.CAN_Message.ArbitrationId = 259
    /\ Len(last.pubs) = 1
    /\ last.pubs[1].topic = "simsensor/rearcollision"

\* C3: a delivery on a topic that starts with "sim/" and is not
\* "sim/canmessages" makes exactly one publish, to "moto/" followed by the
\* topic without its first 4 characters, with the inbound payload as it
\* came, whatever the payload is; nothing is thrown.
C3_SimTopicRedirected ==
    (pc = "returned" /\ HasSimPrefix(last.topic) /\ last.topic # "sim/canmessages")
    => /\ last.ex = "none"
       /\ Len(last.pubs) = 1
       /\ last.pubs[1].topic = "moto/" \o SubSeq(last.topic, 5, Len(last.topic))
       /\ last.pubs[1].payload = last.payload
       /\ errors = <<>> \/ errors[Len(errors)].cause < delivered

C3_Witness ==
    /\ pc = "returned"
    /\ last.topic = "sim/foo/bar"
    /\ last.payload = RawText("not json")
    /\ Len(last.pubs) = 1
    /\ last.pubs[1].topic = "moto/foo/bar"
    /\ last.pubs[1].payload = RawText("not json")

\* C4: a delivery on a topic that is not "can/messages" and does not start
\* with "sim/" makes no publish.
C4_OtherTopicDropped ==
    (pc = "returned" /\ last.topic # "can/messages" /\ ~HasSimPrefix(last.topic))
    => /\ last.pubs = <<>>
       /\ \A i \in 1..Len(published) : published[i].cause < delivered

C4_Witness ==
    /\ pc = "returned"
    /\ last.topic = "simsensor/x"
    /\ last.branch = "unrecognized"
    /\ last.pubs = <<>>

\* C5: message_arrived, run on a "can/messages" or "sim/canmessages"
\* payload that is not JSON, publishes nothing, returns to its caller and
\* leaves the state later deliveries are processed from (the route table)
\* as it found it.
C5_MalformedPayloadContained ==
    [][(/\ pc = "callback"
        /\ inflight.topic \in {"can/messages", "sim/canmessages"}
        /\ inflight.payload.k = "raw")
       => /\ pc' = "returned"
          /\ last'.pubs = <<>>
          /\ published' = published
          /\ simArbitrationMap_' = simArbitrationMap_]_vars

\* A malformed first message was logged and the second one was forwarded.
C5_Witness ==
    /\ pc = "returned"
    /\ delivered = 2
    /\ errors = <<[cause |-> 1, ex |-> "parse_error"]>>
    /\ Len(last.pubs) = 1
    /\ Len(published) = 1
    /\ published[1].cause = 2
    /\ published[1].topic = "sensor/sensordetector"

\* The keys of the payload shape read on the topic of the last delivery.
AlgKey == IF last.topic = "can/messages" THEN "AlgorithmID" ELSE "algorithm_id"
MsgKey == IF last.topic = "can/messages" THEN "CAN_Message" ELSE "can_message"
ArbKey == IF last.topic = "can/messages" THEN "ArbitrationId" ELSE "arbitration_id"
DataKey == IF last.topic = "can/messages" THEN "Data" ELSE "data"

\* The nested CAN-message object of the last payload is there.
HasNested == MsgKey \in DOMAIN last.payload.doc.v

\* C6 as stated: a parsed payload without an arbitration id gives a frame
\* whose arbitrationId is 0, whether the nested object lacks the id or is
\* absent itself, and a "sim/canmessages" object without can_message is
\* dropped.
C6_MissingIdIsZero ==
    (Parsed /\ (HasNested => ArbKey \notin DOMAIN last.payload.doc.v[MsgKey].v))
    => /\ last.frame.CAN_Message.ArbitrationId = 0
       /\ (last.topic = "sim/canmessages" /\ ~HasNested) => last.pubs = <<>>

\* C7: in every published result, AlgorithmID is "Unknown" and Data holds
\* DistanceToVehicle only when the payload has no algorithm-id key or has
\* the empty string under it; otherwise AlgorithmID is the inbound
\* algorithm id.
C7_AlgorithmIdDefault ==
    (Parsed /\ Len(last.pubs) = 1)
    => LET in == last.payload.doc.v
           out == last.pubs[1].payload.doc.v
       IN  IF AlgKey \notin DOMAIN in
           THEN /\ out.AlgorithmID = JStr("Unknown")
                /\ DOMAIN out.Data.v = {"DistanceToVehicle"}
           ELSE IF in[AlgKey].k = "str" /\ in[AlgKey].v = ""
           THEN /\ out.AlgorithmID = JStr("Unknown")
                /\ DOMAIN out.Data.v = {"DistanceToVehicle"}
           ELSE out.AlgorithmID = in[AlgKey]

C7_Witness ==
    /\ Parsed
    /\ last.topic = "can/messages"
    /\ "AlgorithmID" \in DOMAIN last.payload.doc.v
    /\ last.payload.doc.v["AlgorithmID"] = JStr("")
    /\ Len(last.pubs) = 1
    /\ last.pubs[1].payload.doc.v.AlgorithmID = JStr("Unknown")

\* The data key of the last payload is missing or holds no array.
NoDataArray ==
    \/ ~HasNested
    \/ DataKey \notin DOMAIN last.payload.doc.v[MsgKey].v
    \/ last.payload.doc.v[MsgKey].v[DataKey].k # "arr"

\* C8: a payload that parses into a frame and whose data key is missing or
\* holds no array gives a frame with empty data and is routed as any other
\* frame (published on "can/messages"; published on "sim/canmessages" when
\* the arbitration id is in the table); what is published has Status false
\* and distance 0.
C8_MissingDataIsEmpty ==
    (pc = "returned"
     /\ last.branch \in {"can/messages", "sim/canmessages"}
     /\ last.payload.k = "json"
     /\ WellTyped(last.payload.doc, AlgKey, MsgKey, ArbKey, DataKey)
     /\ NoDataArray)
    => /\ last.ex = "none"
       /\ last.frame.CAN_Message.Data = <<>>
       /\ last.topic = "can/messages" => Len(last.pubs) = 1
       /\ last.topic = "sim/canmessages" =>
            (Len(last.pubs) = 1 <=>
                last.frame.CAN_Message.ArbitrationId \in {256, 257, 258, 259})
       /\ \A i \in 1..Len(last.pubs) :
            /\ last.pubs[i].payload.doc.v.Status = JBool(FALSE)
            /\ last.pubs[i].payload.doc.v.Data.v.DistanceToVehicle = JFloat(0, 100)

\* A payload whose Data is a string was forwarded.
C8_Witness ==
    /\ Parsed
    /\ last.topic = "can/messages"
    /\ HasNested
    /\ "Data" \in DOMAIN last.payload.doc.v["CAN_Message"].v
    /\ last.payload.doc.v["CAN_Message"].v["Data"].k = "str"
    /\ Len(last.pubs) = 1
    /\ last.pubs[1].payload.doc.v.Status = JBool(FALSE)

\* C9: for every data vector and algorithm id, both decoders return Status
\* true exactly when the vector has an element and the first one is 1, and
\* read no index at or beyond the size.
C9_StatusFromFirstElement ==
    LET data == codecIn.CAN_Message.Data
    IN  \A f \in {"canToJson", "canToJsonSim"} :
            codecOut[f].called =>
                /\ codecOut[f].result.Status <=> (Len(data) >= 1 /\ data[1] = 1)
                /\ \A i \in codecOut[f].reads : i < Len(data)

C9_Witness ==
    /\ codecOut.canToJson.called
    /\ codecOut.canToJsonSim.called
    /\ codecIn.CAN_Message.Data = <<>>
    /\ codecOut.canToJson.result.Status = FALSE
    /\ codecOut.canToJson.reads = {}

\* C10: for every data vector and algorithm id, both decoders return
\* DistanceToVehicle = raw / 100, where raw is (data[2] * 256) | data[1]
\* when the vector has at least 3 elements and 0 when it has fewer.
C10_DistanceFromBytes ==
    LET data == codecIn.CAN_Message.Data
        raw == IF Len(data) >= 3 THEN BitOr(data[3] * 256, data[2]) ELSE 0
    IN  \A f \in {"canToJson", "canToJsonSim"} :
            codecOut[f].called =>
                codecOut[f].result.Data.v.DistanceToVehicle = JFloat(raw, 100)

C10_Witness ==
    /\ codecOut.canToJson.called
    /\ codecIn.AlgorithmID = "BlindSpotDetection"
    /\ codecIn.CAN_Message.Data = <<1, 50, 2, 1>>
    /\ codecOut.canToJson.result.Data.v.DistanceToVehicle = JFloat(562, 100)

\* The algorithm id the decoders work with.
EffectiveAlgorithmId ==
    IF codecIn.AlgorithmID = "" THEN "Unknown" ELSE codecIn.AlgorithmID

\* C11: for every data vector and algorithm id, the Data document of both
\* decoders has a Side key exactly when the effective algorithm id is
\* "BlindSpotDetection"; Side is then "Direita" when the vector has at
\* least 4 elements and data[3] is 1, and "Esquerda" otherwise; for every
\* other algorithm id Data holds DistanceToVehicle only.
C11_SideOnlyForBlindSpot ==
    LET data == codecIn.CAN_Message.Data
    IN  \A f \in {"canToJson", "canToJsonSim"} :
            codecOut[f].called =>
                LET Data == codecOut[f].result.Data.v
                IN  IF EffectiveAlgorithmId = "BlindSpotDetection"
                    THEN /\ DOMAIN Data = {"Side", "DistanceToVehicle"}
                         /\ Data.Side = JStr(IF Len(data) >= 4 /\ data[4] = 1
                                             THEN "Direita" ELSE "Esquerda")
                    ELSE DOMAIN Data = {"DistanceToVehicle"}

C11_Witness ==
    /\ codecOut.canToJson.called
    /\ codecOut.canToJsonSim.called
    /\ codecIn.AlgorithmID = "BlindSpotDetection"
    /\ codecIn.CAN_Message.Data = <<1, 50, 2, 1>>
    /\ codecOut.canToJson.result.Data.v.Side = JStr("Direita")
    /\ codecOut.canToJsonSim.result.Data.v.Side = JStr("Direita")

\* C12: every publish, of a forwarded result or of a redirected payload,
\* is made with qos 1 and the retained flag set.
C12_QosOneRetained ==
    /\ \A i \in 1..Len(published) :
         published[i].qos = 1 /\ published[i].retained = TRUE
    /\ \A i \in 1..Len(last.pubs) :
         last.pubs[i].qos = 1 /\ last.pubs[i].retained = TRUE

\* A forwarded result and a redirected payload have both been published.
C12_Witness ==
    /\ Len(published) = 2
    /\ published[1].topic = "simsensor/pedestrian"
    /\ published[2].topic = "moto/foo/bar"
    /\ published[1].qos = 1 /\ published[1].retained
    /\ published[2].qos = 1 /\ published[2].retained

\* C13 as stated: the Timestamp of a published result is the instant of
\* its encoding, so results encoded for different deliveries (which are
\* processed one after the other, at different instants) carry different
\* Timestamp values.
C13_TimestampsDiffer ==
    \A i, j \in 1..Len(published) :
        (/\ published[i].timestamp # ""
         /\ published[j].timestamp # ""
         /\ published[i].cause # published[j].cause)
        => published[i].timestamp # published[j].timestamp

\* C14 as stated: every delivery ends in a publish (Forward, Redirect) or
\* in none (Drop), and which it is, and the topic and payload published,
\* are settled by the topic and payload delivered: after any history the
\* outcome is the one the message has as the first delivery to a callback
\* whose frame starts zeroed.
C14_OutcomeFromMessageAlone ==
    pc = "returned" =>
        LET first == tryBlock(last.topic, last.payload, InitialArbitrationMap, 0)
        IN  /\ Len(last.pubs) <= 1
            /\ last.pubs = first.pubs
            /\ last.ex = first.ex

\* C15 as stated: every element of a parsed frame's data is in 0..255, and
\* the raw distance of every published result is in 0..65535.
C15_DataInByteRange ==
    Parsed =>
        /\ \A i \in 1..Len(last.frame.CAN_Message.Data) :
             last.frame.CAN_Message.Data[i] \in 0..255
        /\ \A i \in 1..Len(last.pubs) :
             last.pubs[i].payload.doc.v.Data.v.DistanceToVehicle.num \in 0..65535

\* C16: for every algorithm id and data vector, canToJson and canToJsonSim
\* return the same AlgorithmID, Timestamp, Status and Data.
C16_DecodersAgree ==
    (codecOut.canToJson.called /\ codecOut.canToJsonSim.called)
    => /\ codecOut.canToJson.result.AlgorithmID = codecOut.canToJsonSim.result.AlgorithmID
       /\ codecOut.canToJson.result.Timestamp = codecOut.canToJsonSim.result.Timestamp
       /\ codecOut.canToJson.result.Status = codecOut.canToJsonSim.result.Status
       /\ codecOut.canToJson.result.Data = codecOut.canToJsonSim.result.Data
       /\ outPayload(codecOut.canToJson.result) = outPayload(codecOut.canToJsonSim.result)

\* Both decoders have run on a frame whose distance bytes share a bit.
C16_Witness ==
    /\ codecOut.canToJson.called
    /\ codecOut.canToJsonSim.called
    /\ codecIn.AlgorithmID = "BlindSpotDetection"
    /\ codecIn.CAN_Message.Data = <<1, 300, 1, 1>>
    /\ codecOut.canToJsonSim.result.Data.v.DistanceToVehicle = JFloat(300, 100)

\* C17: after any sequence of deliveries the route table holds the four
\* entries 0x100..0x103 with the topics the constructor gave them.
C17_RouteTableConstant ==
    /\ DOMAIN simArbitrationMap_ = {256, 257, 258, 259}
    /\ simArbitrationMap_[256] = "simsensor/blindspot"
    /\ simArbitrationMap_[257] = "simsensor/pedestrian"
    /\ simArbitrationMap_[258] = "simsensor/frontalcollision"
    /\ simArbitrationMap_[259] = "simsensor/rearcollision"

\* A frame with an id outside the table was dropped after a mapped one was
\* forwarded.
C17_Witness ==
    /\ Parsed
    /\ delivered = 2
    /\ last.topic = "sim/canmessages"
    /\ last.frame.CAN_Message.ArbitrationId = 2457
    /\ last.pubs = <<>>
    /\ Len(published) = 1
    /\ published[1].topic = "simsensor/blindspot"
    /\ DOMAIN simArbitrationMap_ = {256, 257, 258, 259}

\* C18: the document published for a frame is settled by the frame's
\* algorithm id and data, so encoding the same frame again gives the same
\* document; it has the four keys AlgorithmID, Timestamp, Status and Data.
C18_DocumentFromIdAndData ==
    (Parsed /\ Len(last.pubs) = 1)
    => LET bare == [AlgorithmID |-> last.frame.AlgorithmID,
                    CAN_Message |-> [ArbitrationId |-> 0,
                                     Data |-> last.frame.CAN_Message.Data]]
           doc == last.pubs[1].payload.doc
       IN  /\ last.pubs[1].payload.k = "json"
           /\ doc.k = "obj"
           /\ DOMAIN doc.v = {"AlgorithmID", "Timestamp", "Status", "Data"}
           /\ doc = IF last.topic = "can/messages"
                    THEN outPayload(canToJson(bare))
                    ELSE outPayload(canToJsonSim(bare))

\* A frame with an arbitration id of its own was encoded and published.
C18_Witness ==
    /\ Parsed
    /\ last.topic = "can/messages"
    /\ last.frame.CAN_Message.ArbitrationId = 2457
    /\ last.frame.CAN_Message.Data = <<1, 50, 2, 1>>
    /\ Len(last.pubs) = 1
    /\ DOMAIN last.pubs[1].payload.doc.v = {"AlgorithmID", "Timestamp", "Status", "Data"}

\* C19: no topic published to is delivered to the bridge's own
\* subscriptions "sim/#" and "can/messages".
C19_NoSelfDelivery ==
    /\ \A i \in 1..Len(published) :
         \A filter \in subscriptions : ~topicMatches(filter, published[i].topic)
    /\ \A i \in 1..Len(last.pubs) :
         \A filter \in subscriptions : ~topicMatches(filter, last.pubs[i].topic)
    /\ Len(last.pubs) <= 1

\* A table topic and a redirect topic have been published to, and the
\* inbound topics that caused them are delivered to the subscriptions.
C19_Witness ==
    /\ pc = "returned"
    /\ Len(published) = 2
    /\ published[1].topic = "simsensor/frontalcollision"
    /\ published[2].topic = "moto/canmessages/x"
    /\ last.topic = "sim/canmessages/x"
    /\ topicMatches("sim/#", last.topic)
    /\ topicMatches("sim/#", "sim")
    /\ topicMatches("can/messages", "can/messages")

\* C20: a delivery causes at most one publish, and the publishes are in
\* the order of the deliveries that caused them.
C20_PublishesInDeliveryOrder ==
    /\ Len(last.pubs) <= 1
    /\ \A i \in 1..Len(published) : published[i].cause \in 1..delivered
    /\ \A i, j \in 1..Len(published) :
         i < j => published[i].cause < published[j].cause

\* Two deliveries were forwarded to the same topic, one after the other.
C20_Witness ==
    /\ pc = "returned"
    /\ Len(published) = 2
    /\ published[1].cause = 1
    /\ published[2].cause = 2
    /\ published[1].topic = "sensor/sensordetector"
    /\ published[2].topic = "sensor/sensordetector"

====
